---------------------------- MODULE Spec2Model ----------------------------
(***************************************************************************)
(* Model of the generated streaming filter src/my_filter.py (class         *)
(* MyFilter: a cascade of two biquad sections) and of the worker/GUI       *)
(* plumbing of src/GUI.py that launches the generator.                     *)
(*                                                                         *)
(* Python floats are IEEE-754 binary64 values.  They are modelled exactly: *)
(* a finite value is sign * m * 2^e with a 53-bit mantissa m held in four  *)
(* 14-bit limbs (least significant first), and every arithmetic operation  *)
(* rounds to nearest, ties to even, as the hardware does.                  *)
(***************************************************************************)
EXTENDS Integers, Sequences, FiniteSets, TLC

(***************************************************************************)
(* binary64 arithmetic                                                     *)
(***************************************************************************)

\* Every intermediate result below is bound once, by a binder over a
\* one-element set, and then used by name: The({e(x) : x \in {v}}) is e(v).
The(S) == CHOOSE r \in S : TRUE

\* Width of one mantissa limb of the representation (products of two limbs
\* stay below 2^31).
LimbBits == 14

LimbBase == 2^LimbBits

\* Limbs of a mantissa, and of an exact intermediate result (112 bits).
MantLimbs == 4

WideLimbs == 8

\* binary64: 53 significant bits; the exponent of the unit in the last place
\* ranges over EMin..EMax.
Precision == 53

EMin == -1074

EMax == 971

Max2(a, b) == IF a >= b THEN a ELSE b

Min2(a, b) == IF a <= b THEN a ELSE b

Limb(a, i) == IF i \in 1..WideLimbs THEN a[i] ELSE 0

WZero == << 0, 0, 0, 0, 0, 0, 0, 0 >>

MZero == << 0, 0, 0, 0 >>

Widen(m) == m \o MZero

Low4(w) == SubSeq(w, 1, MantLimbs)

\* A natural number below 2^31 as a wide integer (it fills three limbs).
WFromInt(n) ==
    << n % LimbBase, (n \div LimbBase) % LimbBase,
       (n \div (LimbBase * LimbBase)) % LimbBase, 0, 0, 0, 0, 0 >>

\* Exact product of two mantissas.
WMul(a, b) ==
    LET c1 == a[1] * b[1]
        c2 == a[1] * b[2] + a[2] * b[1] + (c1 \div LimbBase)
        c3 == a[1] * b[3] + a[2] * b[2] + a[3] * b[1] + (c2 \div LimbBase)
        c4 == a[1] * b[4] + a[2] * b[3] + a[3] * b[2] + a[4] * b[1]
              + (c3 \div LimbBase)
        c5 == a[2] * b[4] + a[3] * b[3] + a[4] * b[2] + (c4 \div LimbBase)
        c6 == a[3] * b[4] + a[4] * b[3] + (c5 \div LimbBase)
        c7 == a[4] * b[4] + (c6 \div LimbBase)
    IN  << c1 % LimbBase, c2 % LimbBase, c3 % LimbBase, c4 % LimbBase,
           c5 % LimbBase, c6 % LimbBase, c7 % LimbBase, c7 \div LimbBase >>

\* Limbs i.. of a + b + carry.
RECURSIVE AddFrom(_, _, _, _)
AddFrom(a, b, i, carry) ==
    IF i > WideLimbs THEN << >>
    ELSE The({ << t % LimbBase >> \o AddFrom(a, b, i + 1, t \div LimbBase) :
               t \in {a[i] + b[i] + carry} })

WAdd(a, b) == AddFrom(a, b, 1, 0)

\* Limbs i.. of a - b - borrow.
RECURSIVE SubFrom(_, _, _, _)
SubFrom(a, b, i, borrow) ==
    IF i > WideLimbs THEN << >>
    ELSE The({ << t % LimbBase >>
               \o SubFrom(a, b, i + 1, IF t < 0 THEN 1 ELSE 0) :
               t \in {a[i] - b[i] - borrow} })

\* a - b for a >= b.
WSub(a, b) == SubFrom(a, b, 1, 0)

\* -1, 0, 1 as a < b, a = b, a > b on the limbs i and below.
RECURSIVE CmpFrom(_, _, _)
CmpFrom(a, b, i) ==
    IF i = 0 THEN 0
    ELSE IF a[i] < b[i] THEN -1
    ELSE IF a[i] > b[i] THEN 1
    ELSE CmpFrom(a, b, i - 1)

WCmp(a, b) == CmpFrom(a, b, WideLimbs)

\* Index of the highest nonzero limb among limbs i and below (0: none).
RECURSIVE TopLimb(_, _)
TopLimb(a, i) ==
    IF i = 0 THEN 0 ELSE IF a[i] # 0 THEN i ELSE TopLimb(a, i - 1)

\* Number of significant bits of a nonzero limb.
LimbLen(v) == CHOOSE k \in 1..LimbBits : 2^(k - 1) <= v /\ v < 2^k

\* Number of significant bits.
BitLen(a) ==
    The({ IF top = 0 THEN 0
          ELSE LimbBits * (top - 1) + LimbLen(a[top]) :
          top \in {TopLimb(a, WideLimbs)} })

\* floor(a / 2^sh)
ShR(a0, sh) ==
    The({ LET L(i) == (Limb(a, i + q) \div 2^r)
                      + (Limb(a, i + q + 1) % 2^r) * 2^(LimbBits - r)
          IN  << L(1), L(2), L(3), L(4), L(5), L(6), L(7), L(8) >> :
          a \in {a0}, q \in {sh \div LimbBits}, r \in {sh % LimbBits} })

\* a * 2^sh (the result must fit the wide integer)
ShL(a0, sh) ==
    The({ LET L(i) == (Limb(a, i - q) % 2^(LimbBits - r)) * 2^r
                      + (Limb(a, i - q - 1) \div 2^(LimbBits - r))
          IN  << L(1), L(2), L(3), L(4), L(5), L(6), L(7), L(8) >> :
          a \in {a0}, q \in {sh \div LimbBits}, r \in {sh % LimbBits} })

\* Bit k (bit 0 is the least significant).
Bit(a, k) == (Limb(a, (k \div LimbBits) + 1) \div 2^(k % LimbBits)) % 2

\* Whether some bit below bit k is set.
AnyBelow(a, k) ==
    \/ \E i \in 1..WideLimbs : i * LimbBits <= k /\ a[i] # 0
    \/ Limb(a, (k \div LimbBits) + 1) % 2^(k % LimbBits) # 0

FZero(s) == [k |-> "fin", s |-> s, e |-> EMin, m |-> MZero]

FInf(s) == [k |-> "inf", s |-> s, e |-> 0, m |-> MZero]

FNaN == [k |-> "nan", s |-> 0, e |-> 0, m |-> MZero]

IsZero(x) == x.k = "fin" /\ x.m = MZero

\* (-1)^s * m * 2^e with m of at most 53 bits, or infinity on overflow.
Pack(s, e, m) ==
    IF e > EMax THEN FInf(s)
    ELSE [k |-> "fin", s |-> s, e |-> e, m |-> Low4(m)]

\* a of n <= 53 bits is representable: the mantissa is shifted up to 53
\* bits, or as far as the smallest exponent allows.
RoundExact(s, e, a, n) ==
    The({ Pack(s, e - t, ShL(a, t)) :
          t \in {Min2(Precision - n, e - EMin)} })

\* The rounded mantissa q1 at exponent e1: rounding up may have carried
\* into a 54th bit.
RoundCarry(s, e1, q0) ==
    The({ The({ IF nb = 0 THEN FZero(s)
                ELSE IF nb > Precision THEN Pack(s, e1 + 1, ShR(q1, 1))
                ELSE Pack(s, e1, q1) :
                nb \in {BitLen(q1)} }) :
          q1 \in {q0} })

\* sh > 0 low bits of a are dropped, rounding to nearest, ties to even.
RoundShift(s, e, a, sh) ==
    The({ RoundCarry(s, e,
                     IF /\ Bit(a, sh - 1) = 1
                        /\ (AnyBelow(a, sh - 1) \/ q[1] % 2 = 1)
                     THEN WAdd(q, WFromInt(1)) ELSE q) :
          q \in {ShR(a, sh)} })

\* The binary64 value nearest to (-1)^s * a * 2^e, ties to even; values
\* below the normal range round on the subnormal grid, values above it
\* overflow to infinity.
RoundPack(s, e, a0) ==
    The({ IF a = WZero THEN FZero(s)
          ELSE The({ The({ IF sh0 <= 0 THEN RoundExact(s, e, a, n)
                           ELSE RoundShift(s, e + sh0, a,
                                           Min2(sh0, WideLimbs * LimbBits + 1)) :
                           sh0 \in {Max2(n - Precision, EMin - e)} }) :
                     n \in {BitLen(a)} }) :
          a \in {a0} })

\* -x
FNeg(x0) ==
    The({ IF x.k = "nan" THEN x ELSE [x EXCEPT !.s = 1 - x.s] : x \in {x0} })

\* x * y
FMul(x0, y0) ==
    The({ IF x.k = "nan" \/ y.k = "nan" THEN FNaN
          ELSE IF x.k = "inf" \/ y.k = "inf"
               THEN IF IsZero(x) \/ IsZero(y) THEN FNaN
                    ELSE FInf((x.s + y.s) % 2)
          ELSE IF IsZero(x) \/ IsZero(y) THEN FZero((x.s + y.s) % 2)
          ELSE RoundPack((x.s + y.s) % 2, x.e + y.e, WMul(x.m, y.m)) :
          x \in {x0}, y \in {y0} })

\* The sum of (-1)^hs * A * 2^e and (-1)^ls * B * 2^e.
AddAligned(hs, ls, e, A, B) ==
    IF hs = ls THEN RoundPack(hs, e, WAdd(A, B))
    ELSE The({ IF c = 0 THEN FZero(0)
               ELSE IF c > 0 THEN RoundPack(hs, e, WSub(A, B))
               ELSE RoundPack(ls, e, WSub(B, A)) :
               c \in {WCmp(A, B)} })

\* Sum of two finite nonzero values, hi.e >= lo.e.  When the exponents are
\* more than 56 apart the smaller operand only matters as a sticky bit.
AddOrdered(hi, lo) ==
    IF hi.e - lo.e > 56
    THEN The({ AddAligned(hi.s, lo.s, hi.e - 56, A, B) :
               A \in {ShL(Widen(hi.m), 56)}, B \in {WFromInt(1)} })
    ELSE The({ AddAligned(hi.s, lo.s, lo.e, A, B) :
               A \in {ShL(Widen(hi.m), hi.e - lo.e)}, B \in {Widen(lo.m)} })

\* x + y
FAdd(x0, y0) ==
    The({ IF x.k = "nan" \/ y.k = "nan" THEN FNaN
          ELSE IF x.k = "inf"
               THEN IF y.k = "inf" /\ y.s # x.s THEN FNaN ELSE x
          ELSE IF y.k = "inf" THEN y
          ELSE IF IsZero(x) /\ IsZero(y)
               THEN FZero(IF x.s = y.s THEN x.s ELSE 0)
          ELSE IF IsZero(x) THEN y
          ELSE IF IsZero(y) THEN x
          ELSE IF x.e >= y.e THEN AddOrdered(x, y) ELSE AddOrdered(y, x) :
          x \in {x0}, y \in {y0} })

\* x - y
FSub(x, y) == FAdd(x, FNeg(y))

\* x < y (false when either is NaN)
FLt(x0, y0) ==
    The({ /\ x.k # "nan" /\ y.k # "nan"
          /\ The({ d.k # "nan" /\ ~IsZero(d) /\ d.s = 1 :
                   d \in {FSub(x, y)} }) :
          x \in {x0}, y \in {y0} })

\* x <= y (false when either is NaN)
FLe(x0, y0) ==
    The({ x.k # "nan" /\ y.k # "nan" /\ ~FLt(y, x) : x \in {x0}, y \in {y0} })

\* abs(x)
FAbs(x0) ==
    The({ IF x.k = "nan" THEN x ELSE [x EXCEPT !.s = 0] : x \in {x0} })

(***************************************************************************)
(* Decimal literals.  A literal of the source text is kept as its digits:  *)
(* ip before the point and fp after it.  Its value is the binary64 nearest *)
(* to the decimal number (correct rounding, as the Python parser does).    *)
(***************************************************************************)

\* The integer written by the first n digits of ds.
RECURSIVE DigitsToInt(_, _)
DigitsToInt(ds, n) ==
    IF n = 0 THEN 0 ELSE 10 * DigitsToInt(ds, n - 1) + ds[n]

\* floor(a / v) for 0 < v < 2^17, and whether the division left a
\* remainder (long division from the most significant limb down).
WDivSmall(a0, v0) ==
    The({ LET c8 == a[8]
              c7 == (c8 % v) * LimbBase + a[7]
              c6 == (c7 % v) * LimbBase + a[6]
              c5 == (c6 % v) * LimbBase + a[5]
              c4 == (c5 % v) * LimbBase + a[4]
              c3 == (c4 % v) * LimbBase + a[3]
              c2 == (c3 % v) * LimbBase + a[2]
              c1 == (c2 % v) * LimbBase + a[1]
          IN  [q |-> << c1 \div v, c2 \div v, c3 \div v, c4 \div v,
                        c5 \div v, c6 \div v, c7 \div v, c8 \div v >>,
               inexact |-> c1 % v # 0] :
          a \in {a0}, v \in {v0} })

\* The digits ip.fp denote M / 10^d with M the integer of all the digits
\* (below 2^27) and d = Len(fp) <= 14.  M * 2^84 / 5^d is computed to the
\* bit (dividing by 5^7 at most at a time), a sticky bit is appended, and
\* the result is rounded once.
FromLit(ip, fp) ==
    The({ The({ The({ RoundPack(0, 0 - (6 * LimbBits) - d - 1,
                                WAdd(ShL(dv2.q, 1),
                                     WFromInt(IF dv1.inexact \/ dv2.inexact
                                              THEN 1 ELSE 0))) :
                      dv2 \in {WDivSmall(dv1.q, 5^(d - Min2(d, 7)))} }) :
                dv1 \in {WDivSmall(ShL(WFromInt(M), 6 * LimbBits),
                                   5^Min2(d, 7))} }) :
          M \in {DigitsToInt(ip \o fp, Len(ip) + Len(fp))}, d \in {Len(fp)} })

\* A literal of the source: an optional minus sign, the digits before the
\* point and the digits after it.
Lit(neg, ip, fp) == [neg |-> neg, ip |-> ip, fp |-> fp]

\* The float a literal evaluates to (unary minus negates the parsed value).
LitValue(l) ==
    IF l.neg THEN FNeg(FromLit(l.ip, l.fp)) ELSE FromLit(l.ip, l.fp)

\* The header comment of the artifact: the design it was generated for.
ArtifactHeader ==
    [family |-> "Low-Pass", design |-> "Butterworth",
     rate |-> FromLit(<<5, 0, 0>>, <<0>>), freq |-> FromLit(<<5, 0>>, <<0>>),
     order |-> 4]

\* Plausible slips of the generator in one literal: a feedback coefficient
\* emitted without its sign, a digit off, a numerator tap of 1 for 2.
Sec1A1LitUnsigned == Lit(FALSE, <<1>>, <<3, 2, 0, 9, 1, 3, 4, 3>>)

Sec1A2LitSlipped == Lit(FALSE, <<1>>, <<6, 3, 2, 7, 3, 8, 7, 9>>)

Sec1B1LitSlipped == Lit(FALSE, <<1>>, <<0, 0, 0, 0, 0, 0, 0, 0>>)

(***************************************************************************)
(* class MyFilter                                                          *)
(***************************************************************************)

\* The coefficient literals of process, as written in the source.
\* Biquad section 0: x = output - (Sec0A1 * z1_0) - (Sec0A2 * z2_0)
Sec0A1Lit == Lit(TRUE, <<1>>, <<0, 4, 8, 5, 9, 9, 5, 8>>)

Sec0A2Lit == Lit(FALSE, <<0>>, <<2, 9, 6, 1, 4, 0, 3, 6>>)

\* output = Sec0B0 * x + Sec0B1 * z1_0 + Sec0B2 * z2_0
Sec0B0Lit == Lit(FALSE, <<0>>, <<0, 0, 4, 8, 2, 4, 3, 4>>)

Sec0B1Lit == Lit(FALSE, <<0>>, <<0, 0, 9, 6, 4, 8, 6, 9>>)

Sec0B2Lit == Lit(FALSE, <<0>>, <<0, 0, 4, 8, 2, 4, 3, 4>>)

\* Biquad section 1: x = output - (Sec1A1 * z1_1) - (Sec1A2 * z2_1)
Sec1A1Lit == Lit(TRUE, <<1>>, <<3, 2, 0, 9, 1, 3, 4, 3>>)

Sec1A2Lit == Lit(FALSE, <<0>>, <<6, 3, 2, 7, 3, 8, 7, 9>>)

\* output = Sec1B0 * x + Sec1B1 * z1_1 + Sec1B2 * z2_1
Sec1B0Lit == Lit(FALSE, <<1>>, <<0, 0, 0, 0, 0, 0, 0, 0>>)

Sec1B1Lit == Lit(FALSE, <<2>>, <<0, 0, 0, 0, 0, 0, 0, 0>>)

Sec1B2Lit == Lit(FALSE, <<1>>, <<0, 0, 0, 0, 0, 0, 0, 0>>)

Sec0A1 == LitValue(Sec0A1Lit)

Sec0A2 == LitValue(Sec0A2Lit)

Sec0B0 == LitValue(Sec0B0Lit)

Sec0B1 == LitValue(Sec0B1Lit)

Sec0B2 == LitValue(Sec0B2Lit)

Sec1A1 == LitValue(Sec1A1Lit)

Sec1A2 == LitValue(Sec1A2Lit)

Sec1B0 == LitValue(Sec1B0Lit)

Sec1B1 == LitValue(Sec1B1Lit)

Sec1B2 == LitValue(Sec1B2Lit)

\* The literals in source order, and the literal 0.0 of __init__ and reset.
CoefficientLiterals ==
    << Sec0A1Lit, Sec0A2Lit, Sec0B0Lit, Sec0B1Lit, Sec0B2Lit,
       Sec1A1Lit, Sec1A2Lit, Sec1B0Lit, Sec1B1Lit, Sec1B2Lit >>

UnitLit == Lit(FALSE, <<1>>, <<0>>)

ZeroLit == Lit(FALSE, <<0>>, <<0>>)

\* __init__: the state registers of a new instance.
MyFilterInit ==
    [z1_0 |-> LitValue(ZeroLit), z2_0 |-> LitValue(ZeroLit),
     z1_1 |-> LitValue(ZeroLit), z2_1 |-> LitValue(ZeroLit)]

\* "Biquad section 0" of process: from the registers z and the running
\* value output, the new registers and the new running value.
Section0(z, output) ==
    The({ [z |-> [z EXCEPT !.z2_0 = z.z1_0, !.z1_0 = x],
           output |-> FAdd(FAdd(FMul(Sec0B0, x), FMul(Sec0B1, z.z1_0)),
                           FMul(Sec0B2, z.z2_0))] :
          x \in {FSub(FSub(output, FMul(Sec0A1, z.z1_0)),
                      FMul(Sec0A2, z.z2_0))} })

\* "Biquad section 1" of process.
Section1(z, output) ==
    The({ [z |-> [z EXCEPT !.z2_1 = z.z1_1, !.z1_1 = x],
           output |-> FAdd(FAdd(FMul(Sec1B0, x), FMul(Sec1B1, z.z1_1)),
                           FMul(Sec1B2, z.z2_1))] :
          x \in {FSub(FSub(output, FMul(Sec1A1, z.z1_1)),
                      FMul(Sec1A2, z.z2_1))} })

\* A plausible slip: the sections run in the opposite order.
processSwapped(z, input_sample) ==
    The({ Section0(s1.z, s1.output) : s1 \in {Section1(z, input_sample)} })

\* process(input_sample): the registers after the call and the value
\* returned.
process(z, input_sample) ==
    The({ Section1(s0.z, s0.output) : s0 \in {Section0(z, input_sample)} })

\* A plausible slip: the zeros are assigned to locals, not to the instance.
resetLocal(z) == z

\* A plausible slip: one register is left out of the reset.
resetPartial(z) ==
    [z EXCEPT !.z1_0 = LitValue(ZeroLit), !.z2_0 = LitValue(ZeroLit),
              !.z1_1 = LitValue(ZeroLit)]

\* reset(): the registers after the call.
reset(z) ==
    [z EXCEPT !.z1_0 = LitValue(ZeroLit), !.z2_0 = LitValue(ZeroLit),
              !.z1_1 = LitValue(ZeroLit), !.z2_1 = LitValue(ZeroLit)]

(***************************************************************************)
(* GUI.py: the designer window and its worker thread.                      *)
(*                                                                         *)
(* A Python string is a sequence of tokens; a token is a word of the       *)
(* program ("--type", "lowpass", ".py") or one typed character.  + and     *)
(* f-strings concatenate the sequences; strip() removes the blanks at      *)
(* both ends.                                                              *)
(***************************************************************************)

\* The text of one token.
T(s) == << s >>

Blank == " "

\* str.strip()
RECURSIVE LStrip(_)
LStrip(t) ==
    IF t # << >> /\ t[1] = Blank THEN LStrip(SubSeq(t, 2, Len(t))) ELSE t

RECURSIVE RStrip(_)
RStrip(t) ==
    IF t # << >> /\ t[Len(t)] = Blank
    THEN RStrip(SubSeq(t, 1, Len(t) - 1)) ELSE t

Strip(t) == RStrip(LStrip(t))

\* str.lower(), token by token.
LowerToken(s) ==
    CASE s = "Python" -> "python"
      [] s = "JavaScript" -> "javascript"
      [] s = "TypeScript" -> "typescript"
      [] s = "C++" -> "c++"
      [] s = "Java" -> "java"
      [] OTHER -> s

Lower(t) == [i \in 1..Len(t) |-> LowerToken(t[i])]

\* The items of the two combo boxes, in order.
FilterTypeItems == << "lowpass", "highpass", "bandpass", "bandstop" >>

OutputLanguageItems == << "python", "javascript", "typescript", "c++", "java" >>

\* str() of the values the spin boxes are constructed with.
SamplingRateText == T("500.0")

FilterOrderText == T("4")

CriticalFreqText == T("50.0")

BandwidthText == T("4.0")

\* sys.executable and the path of filter_gen.py beside GUI.py.
SysExecutable == T("python")

ScriptPath == T("filter_gen.py")

\* What the code preview shows before any file is loaded.
NoCode == [path |-> << >>, run |-> 0]

\* The widgets after ModernFilterGUI.__init__.
GuiInit ==
    [filter_type |-> FilterTypeItems[1],
     freq_label |-> "Cutoff Frequency (Hz)",
     bandwidth_shown |-> FALSE,
     output_language |-> OutputLanguageItems[1],
     class_name |-> T("MyFilter"),
     file_name |-> T("my_filter"),
     generate_plot |-> TRUE,
     generate_button |-> [enabled |-> TRUE, text |-> "Generate Filter"],
     status_text |-> << >>,
     code_preview |-> NoCode,
     message_box |-> << >>]

\* ModernFilterGUI.on_filter_type_changed
on_filter_type_changed(g) ==
    IF g.filter_type \in {"bandpass", "bandstop"}
    THEN [g EXCEPT !.freq_label = "Center Frequency (Hz)",
                   !.bandwidth_shown = TRUE]
    ELSE [g EXCEPT !.freq_label = "Cutoff Frequency (Hz)",
                   !.bandwidth_shown = FALSE]

\* A plausible slip: the extension table lacks the entry of one language,
\* which then takes the default.
get_file_extension_short(g) ==
    LET language == Lower(T(g.output_language))
    IN  CASE language = T("python") -> T(".py")
          [] language = T("javascript") -> T(".js")
          [] language = T("typescript") -> T(".ts")
          [] language = T("c++") -> T(".cpp")
          [] OTHER -> T(".py")

\* ModernFilterGUI.get_file_extension
get_file_extension(g) ==
    LET language == Lower(T(g.output_language))
    IN  CASE language = T("python") -> T(".py")
          [] language = T("javascript") -> T(".js")
          [] language = T("typescript") -> T(".ts")
          [] language = T("c++") -> T(".cpp")
          [] language = T("java") -> T(".java")
          [] OTHER -> T(".py")

\* A plausible slip: --width is added for bandpass only.
build_command_bandpass_only(g) ==
    LET filename == Strip(g.file_name)
        plot_filename == IF filename # << >> THEN filename
                         ELSE T(g.filter_type)
    IN  << SysExecutable, ScriptPath,
           T("--type"), T(g.filter_type),
           T("--rate"), SamplingRateText,
           T("--order"), FilterOrderText,
           T("--freq"), CriticalFreqText >>
        \o (IF g.filter_type \in {"bandpass"}
            THEN << T("--width"), BandwidthText >> ELSE << >>)
        \o (IF Strip(g.class_name) # << >>
            THEN << T("--name"), Strip(g.class_name) >> ELSE << >>)
        \o << T("--language"), Lower(T(g.output_language)) >>
        \o (IF filename # << >>
            THEN << T("--out"), filename \o get_file_extension(g) >>
            ELSE << >>)
        \o (IF g.generate_plot
            THEN << T("--plot"), plot_filename \o T("_response.png") >>
            ELSE << >>)

\* ModernFilterGUI.build_command: the argument vector, one string each.
build_command(g) ==
    LET filename == Strip(g.file_name)
        plot_filename == IF filename # << >> THEN filename
                         ELSE T(g.filter_type)
    IN  << SysExecutable, ScriptPath,
           T("--type"), T(g.filter_type),
           T("--rate"), SamplingRateText,
           T("--order"), FilterOrderText,
           T("--freq"), CriticalFreqText >>
        \o (IF g.filter_type \in {"bandpass", "bandstop"}
            THEN << T("--width"), BandwidthText >> ELSE << >>)
        \o (IF Strip(g.class_name) # << >>
            THEN << T("--name"), Strip(g.class_name) >> ELSE << >>)
        \o << T("--language"), Lower(T(g.output_language)) >>
        \o (IF filename # << >>
            THEN << T("--out"), filename \o get_file_extension(g) >>
            ELSE << >>)
        \o (IF g.generate_plot
            THEN << T("--plot"), plot_filename \o T("_response.png") >>
            ELSE << >>)

\* The value that follows flag in an argument vector (<< >> when absent).
ArgOf(cmd, flag) ==
    IF \E i \in 1..(Len(cmd) - 1) : cmd[i] = T(flag)
    THEN cmd[(CHOOSE i \in 1..(Len(cmd) - 1) : cmd[i] = T(flag)) + 1]
    ELSE << >>

HasArg(cmd, flag) == \E i \in 1..Len(cmd) : cmd[i] = T(flag)

\* What subprocess.run can do with a command: return a CompletedProcess
\* with a return code and the captured stderr, or raise (the interpreter
\* could not be launched).
SubprocessResults ==
    { [kind |-> "completed", returncode |-> 0, stderr |-> << >>],
      [kind |-> "completed", returncode |-> 0,
       stderr |-> T("UserWarning: badly conditioned filter")],
      [kind |-> "completed", returncode |-> 1,
       stderr |-> T("ValueError: frequency must be below Nyquist")],
      [kind |-> "completed", returncode |-> 2,
       stderr |-> T("usage: filter_gen.py: error: argument --type")],
      [kind |-> "raised",
       exception |-> T("[Errno 2] No such file or directory: 'python'")] }

\* A plausible slip: the return code is not looked at.
RunSignalsUnchecked(result) ==
    IF result.kind = "completed"
    THEN << [signal |-> "finished",
             arg |-> T("Filter generated successfully!")] >>
    ELSE << [signal |-> "error",
             arg |-> T("Error: ") \o result.exception] >>

\* FilterThread.run: the signals it emits, in order, for the outcome of
\* subprocess.run.
RunSignals(result) ==
    IF result.kind = "completed"
    THEN IF result.returncode = 0
         THEN << [signal |-> "finished",
                  arg |-> T("Filter generated successfully!")] >>
         ELSE << [signal |-> "error",
                  arg |-> T("Error: ") \o result.stderr] >>
    ELSE << [signal |-> "error",
             arg |-> T("Error: ") \o result.exception] >>

(***************************************************************************)
(* Instances in use: one MyFilter per channel, as in the usage notes of    *)
(* the source.  Each call is one step.                                     *)
(***************************************************************************)

\* The channels, each with its own instance.
Channels == {1, 2}

\* Input samples fed to process: 1.0 and -0.37.
Samples == {FromLit(<<1>>, <<0>>), FNeg(FromLit(<<0>>, <<3, 7>>))}

\* Calls made in one run of the model, over all channels.
MaxCalls == 4

VARIABLES
    filters,    \* filters[c]: the registers of channel c's instance
    calls,      \* calls[c]: the calls made on channel c's instance, in order
    last,       \* the last call: its channel, its arguments, the registers
                \* it found and the value it returned
    unitCalls,  \* calls of process(1.0) since the reset state, counted up
                \* to DCSettle (used by SpecDC only)
    gui,        \* the widgets of the designer window
    threads,    \* the FilterThread objects alive, oldest first; the last
                \* is self.worker_thread
    events,     \* signals emitted by the workers and queued for the slots
                \* of the main thread
    disk,       \* the files the generator has written: path -> run
    handled,    \* the slot of a worker signal run last
    edits,      \* edits made by the user so far
    runs        \* calls of generate_filter so far

filterVars == << filters, calls, last, unitCalls >>

guiVars == << gui, threads, events, disk, handled, edits, runs >>

vars == << filters, calls, last, unitCalls, gui, threads, events, disk,
           handled, edits, runs >>

NoSample == FNaN

NoResult == [kind |-> "none"]

NoSlot == [slot |-> "none", thread |-> 0, arg |-> << >>, result |-> NoResult]

NoCall ==
    [op |-> "none", ch |-> 0, in |-> NoSample, pre |-> MyFilterInit,
     out |-> NoSample]

\* A plausible slip: the registers are attributes of the class, shared by
\* every instance.
StoreShared(f, c, z) == [d \in DOMAIN f |-> z]

\* self.<register> = ...: the writes of a method go to its own instance.
StoreState(f, c, z) == [f EXCEPT ![c] = z]

\* A plausible slip: the registers are read from one fixed instance.
LoadFirst(f, c) == f[1]

\* self.<register>: the reads of a method come from its own instance.
LoadState(f, c) == f[c]

TotalCalls == Len(calls[1]) + Len(calls[2])

Init ==
    /\ filters = [c \in Channels |-> MyFilterInit]
    /\ calls = [c \in Channels |-> << >>]
    /\ last = NoCall
    /\ unitCalls = 0
    /\ gui = GuiInit
    /\ threads = << >>
    /\ events = << >>
    /\ disk = [p \in {} |-> 0]
    /\ handled = NoSlot
    /\ edits = 0
    /\ runs = 0

\* filters[c].process(u)
Process(c, u) ==
    /\ TotalCalls < MaxCalls
    /\ \E r \in {process(LoadState(filters, c), u)} :
           /\ filters' = StoreState(filters, c, r.z)
           /\ calls' = [calls EXCEPT
                           ![c] = Append(@, [op |-> "process", in |-> u,
                                             out |-> r.output])]
           /\ last' = [op |-> "process", ch |-> c, in |-> u,
                       pre |-> filters[c], out |-> r.output]
    /\ UNCHANGED << unitCalls, guiVars >>

\* filters[c].reset()
Reset(c) ==
    /\ TotalCalls < MaxCalls
    /\ filters' = StoreState(filters, c, reset(LoadState(filters, c)))
    /\ calls' = [calls EXCEPT
                    ![c] = Append(@, [op |-> "reset", in |-> NoSample,
                                      out |-> NoSample])]
    /\ last' = [op |-> "reset", ch |-> c, in |-> NoSample,
                pre |-> filters[c], out |-> NoSample]
    /\ UNCHANGED << unitCalls, guiVars >>

Next ==
    \/ \E c \in Channels, u \in Samples : Process(c, u)
    \/ \E c \in Channels : Reset(c)

Spec == Init /\ [][Next]_vars

(***************************************************************************)
(* One instance fed the constant input 1.0.  unitCalls counts the calls    *)
(* of process since the reset state, up to DCSettle.  The registers reach  *)
(* a fixed point, so the run is explored to its end.                       *)
(***************************************************************************)

\* Calls of process(1.0) after which the output is expected to have
\* settled.
DCSettle == 30

\* filters[1].process(1.0)
DCProcess ==
    /\ \E r \in {process(LoadState(filters, 1), LitValue(UnitLit))} :
           /\ filters' = StoreState(filters, 1, r.z)
           /\ last' = [op |-> "process", ch |-> 1, in |-> LitValue(UnitLit),
                       pre |-> filters[1], out |-> r.output]
    /\ unitCalls' = Min2(unitCalls + 1, DCSettle)
    /\ UNCHANGED << calls, guiVars >>

\* filters[1].reset()
DCReset ==
    /\ filters' = StoreState(filters, 1, reset(LoadState(filters, 1)))
    /\ last' = [op |-> "reset", ch |-> 1, in |-> NoSample,
                pre |-> filters[1], out |-> NoSample]
    /\ unitCalls' = 0
    /\ UNCHANGED << calls, guiVars >>

NextDC == DCProcess \/ DCReset

SpecDC == Init /\ [][NextDC]_vars

(***************************************************************************)
(* The designer window at work.  The main thread runs the user's edits     *)
(* and clicks and the slots of the queued signals, one at a time; each     *)
(* FilterThread runs beside it.                                            *)
(***************************************************************************)

\* Texts the user types into the two line edits.
FileNameTexts == { << >>, << Blank, "f", Blank >>, T("my_filter") }

ClassNameTexts == { << Blank >>, T("MyFilter") }

\* The edits the user makes to the form in one run of the model.
MaxEdits == 1

\* The times generate_filter is started in one run of the model.
MaxRuns == 2

\* The first line of the status box after a success and after a failure
\* (a check mark and a ballot x, each followed by a blank).
CheckMark == T("(check mark) ")

BallotX == T("(ballot x) ")

\* The main window takes the user's input: no modal message box is open.
AcceptsInput == gui.message_box = << >>

\* The user picks item t of the filter type combo box; currentTextChanged
\* calls on_filter_type_changed.
SelectFilterType(t) ==
    /\ AcceptsInput /\ edits < MaxEdits
    /\ t # gui.filter_type
    /\ gui' = on_filter_type_changed([gui EXCEPT !.filter_type = t])
    /\ edits' = edits + 1
    /\ UNCHANGED << filterVars, threads, events, disk, handled, runs >>

\* The user picks item l of the output language combo box.
SelectOutputLanguage(l) ==
    /\ AcceptsInput /\ edits < MaxEdits
    /\ l # gui.output_language
    /\ gui' = [gui EXCEPT !.output_language = l]
    /\ edits' = edits + 1
    /\ UNCHANGED << filterVars, threads, events, disk, handled, runs >>

\* The user types a file name.
EditFileName(t) ==
    /\ AcceptsInput /\ edits < MaxEdits
    /\ t # gui.file_name
    /\ gui' = [gui EXCEPT !.file_name = t]
    /\ edits' = edits + 1
    /\ UNCHANGED << filterVars, threads, events, disk, handled, runs >>

\* The user types a class name.
EditClassName(t) ==
    /\ AcceptsInput /\ edits < MaxEdits
    /\ t # gui.class_name
    /\ gui' = [gui EXCEPT !.class_name = t]
    /\ edits' = edits + 1
    /\ UNCHANGED << filterVars, threads, events, disk, handled, runs >>

\* The user ticks or unticks the plot check box.
TogglePlot ==
    /\ AcceptsInput /\ edits < MaxEdits
    /\ gui' = [gui EXCEPT !.generate_plot = ~@]
    /\ edits' = edits + 1
    /\ UNCHANGED << filterVars, threads, events, disk, handled, runs >>

\* The FilterThread objects that outlive the assignment of a new one to
\* self.worker_thread: those still inside run, which holds self.
RECURSIVE StillInRun(_)
StillInRun(ts) ==
    IF ts = << >> THEN << >>
    ELSE IF ts[1].pc = "started"
    THEN << ts[1] >> \o StillInRun(Tail(ts))
    ELSE StillInRun(Tail(ts))

\* A plausible slip: generate_filter changes the text of the button and
\* leaves it enabled.
generate_filter_enabled ==
    /\ AcceptsInput /\ gui.generate_button.enabled
    /\ runs < MaxRuns
    /\ gui' = [gui EXCEPT
                   !.generate_button = [enabled |-> TRUE, 
                                        text |-> "Generating..."],
                   !.status_text = << T("Generating filter...") >>]
    /\ threads' = Append(StillInRun(threads),
                         [id |-> runs + 1, command |-> build_command(gui),
                          pc |-> "started", result |-> NoResult,
                          emitted |-> << >>])
    /\ runs' = runs + 1
    /\ UNCHANGED << filterVars, events, disk, handled, edits >>

\* ModernFilterGUI.generate_filter, the slot of the button's clicked
\* signal.  Assigning self.worker_thread drops the last reference to the
\* previous FilterThread, which goes once its run has returned.
generate_filter ==
    /\ AcceptsInput /\ gui.generate_button.enabled
    /\ runs < MaxRuns
    /\ gui' = [gui EXCEPT
                   !.generate_button = [enabled |-> FALSE,
                                        text |-> "Generating..."],
                   !.status_text = << T("Generating filter...") >>]
    /\ threads' = Append(StillInRun(threads),
                         [id |-> runs + 1, command |-> build_command(gui),
                          pc |-> "started", result |-> NoResult,
                          emitted |-> << >>])
    /\ runs' = runs + 1
    /\ UNCHANGED << filterVars, events, disk, handled, edits >>

\* The files a generator run that exits with code 0 leaves: the source
\* file named by --out and, when the plotter worked, the image named by
\* --plot.  A file's content is known by the run that wrote it.
Written(d, path, i) ==
    IF path = << >> THEN d
    ELSE [p \in DOMAIN d \cup {path} |-> IF p = path THEN i ELSE d[p]]

\* FilterThread.run on the k-th live thread, result being what
\* subprocess.run did and plotted whether the plotter left its image.
FilterThreadRun(k, result, plotted) ==
    /\ threads[k].pc = "started"
    /\ threads' = [threads EXCEPT ![k].pc = "returned",
                                  ![k].result = result,
                                  ![k].emitted = RunSignals(result)]
    /\ events' = events \o [j \in 1..Len(RunSignals(result)) |->
                               [thread |-> threads[k].id,
                                signal |-> RunSignals(result)[j].signal,
                                arg |-> RunSignals(result)[j].arg,
                                result |-> result]]
    /\ IF result.kind = "completed" /\ result.returncode = 0
       THEN disk' = Written(Written(disk,
                                    ArgOf(threads[k].command, "--out"),
                                    threads[k].id),
                            IF plotted
                            THEN ArgOf(threads[k].command, "--plot")
                            ELSE << >>, threads[k].id)
       ELSE disk' = disk /\ ~plotted
    /\ UNCHANGED << filterVars, gui, handled, edits, runs >>

\* The thread of the k-th live FilterThread finishes after run has
\* returned; an object that self.worker_thread no longer names goes.
ThreadFinished(k) ==
    /\ threads[k].pc = "returned"
    /\ threads' = IF k = Len(threads)
                  THEN [threads EXCEPT ![k].pc = "finished"]
                  ELSE SubSeq(threads, 1, k - 1)
                       \o SubSeq(threads, k + 1, Len(threads))
    /\ UNCHANGED << filterVars, gui, events, disk, handled, edits, runs >>

\* ModernFilterGUI.on_generation_finished(message) on widgets g with the
\* files d; readable tells whether an existing file can be read.
FinishedSlot(g, message, d, readable) ==
    LET filename == Strip(g.file_name)
        filepath == filename \o get_file_extension(g)
        plot_filename == IF filename # << >> THEN filename
                         ELSE T(g.filter_type)
        plot_path == plot_filename \o T("_response.png")
        g1 == [g EXCEPT
                  !.generate_button = [enabled |-> TRUE,
                                       text |-> "Generate Filter"],
                  !.status_text = Append(@, CheckMark \o message)]
        g2 == IF filename = << >> THEN g1
              ELSE IF filepath \notin DOMAIN d
              THEN [g1 EXCEPT !.status_text =
                       Append(@, T("Warning: Generated file not found for preview"))]
              ELSE IF readable
              THEN [g1 EXCEPT
                       !.code_preview = [path |-> filepath,
                                         run |-> d[filepath]],
                       !.status_text =
                           Append(@, T("Generated file: ") \o filepath)]
              ELSE [g1 EXCEPT !.status_text =
                       Append(@, T("Warning: Error reading generated file: ")
                                  \o T("[Errno 13] Permission denied"))]
    IN  IF g.generate_plot /\ plot_path \in DOMAIN d
        THEN [g2 EXCEPT !.status_text =
                            Append(@, T("Generated plot: ") \o plot_path)]
        ELSE g2

\* The slot of the finished signal runs for the signal at the head of the
\* queue.
on_generation_finished(readable) ==
    /\ events # << >> /\ Head(events).signal = "finished"
    /\ gui' = FinishedSlot(gui, Head(events).arg, disk, readable)
    /\ readable \/ (/\ Strip(gui.file_name) # << >>
                    /\ Strip(gui.file_name) \o get_file_extension(gui)
                           \in DOMAIN disk)
    /\ events' = Tail(events)
    /\ handled' = [slot |-> "on_generation_finished",
                   thread |-> Head(events).thread, arg |-> Head(events).arg,
                   result |-> Head(events).result]
    /\ UNCHANGED << filterVars, threads, disk, edits, runs >>

\* A plausible slip: the error slot reports the failure and leaves the
\* button as generate_filter set it.
on_generation_error_reports_only ==
    /\ events # << >> /\ Head(events).signal = "error"
    /\ gui' = [gui EXCEPT
                  !.status_text = Append(@, BallotX \o Head(events).arg),
                  !.message_box = Append(@, Head(events).arg)]
    /\ events' = Tail(events)
    /\ handled' = [slot |-> "on_generation_error",
                   thread |-> Head(events).thread, arg |-> Head(events).arg,
                   result |-> Head(events).result]
    /\ UNCHANGED << filterVars, threads, disk, edits, runs >>

\* ModernFilterGUI.on_generation_error(error_message): the slot of the
\* error signal; it ends by opening a modal message box.
on_generation_error ==
    /\ events # << >> /\ Head(events).signal = "error"
    /\ gui' = [gui EXCEPT
                  !.generate_button = [enabled |-> TRUE,
                                       text |-> "Generate Filter"],
                  !.status_text = Append(@, BallotX \o Head(events).arg),
                  !.message_box = Append(@, Head(events).arg)]
    /\ events' = Tail(events)
    /\ handled' = [slot |-> "on_generation_error",
                   thread |-> Head(events).thread, arg |-> Head(events).arg,
                   result |-> Head(events).result]
    /\ UNCHANGED << filterVars, threads, disk, edits, runs >>

\* The user dismisses the message box on top.
CloseMessageBox ==
    /\ gui.message_box # << >>
    /\ gui' = [gui EXCEPT !.message_box = SubSeq(@, 1, Len(@) - 1)]
    /\ UNCHANGED << filterVars, threads, events, disk, handled, edits, runs >>

NextGui ==
    \/ \E k \in 1..Len(FilterTypeItems) : SelectFilterType(FilterTypeItems[k])
    \/ \E k \in 1..Len(OutputLanguageItems) :
           SelectOutputLanguage(OutputLanguageItems[k])
    \/ \E t \in FileNameTexts : EditFileName(t)
    \/ \E t \in ClassNameTexts : EditClassName(t)
    \/ TogglePlot
    \/ generate_filter
    \/ \E k \in 1..Len(threads), r \in SubprocessResults, p \in BOOLEAN :
           FilterThreadRun(k, r, p)
    \/ \E k \in 1..Len(threads) : ThreadFinished(k)
    \/ \E readable \in BOOLEAN : on_generation_finished(readable)
    \/ on_generation_error
    \/ CloseMessageBox

SpecGui == Init /\ [][NextGui]_vars

\* The steps the program takes without the user: a worker's run, which
\* ends when the generator subprocess ends, and the event loop of the main
\* thread, which delivers every queued signal to its slot.
WorkerRuns ==
    \E k \in 1..Len(threads), r \in SubprocessResults, p \in BOOLEAN :
        FilterThreadRun(k, r, p)

FinishedDelivered == \E readable \in BOOLEAN : on_generation_finished(readable)

(***************************************************************************)
(* The window under filter-type changes alone: the user changes the filter *)
(* type any number of times between and during generations.                *)
(***************************************************************************)

\* The user picks item t of the filter type combo box (no limit on how
\* often); currentTextChanged calls on_filter_type_changed.
ChangeFilterType(t) ==
    /\ AcceptsInput
    /\ t # gui.filter_type
    /\ gui' = on_filter_type_changed([gui EXCEPT !.filter_type = t])
    /\ UNCHANGED << filterVars, threads, events, disk, handled, edits, runs >>

NextFilterType ==
    \/ \E k \in 1..Len(FilterTypeItems) : ChangeFilterType(FilterTypeItems[k])
    \/ generate_filter
    \/ \E k \in 1..Len(threads), r \in SubprocessResults, p \in BOOLEAN :
           FilterThreadRun(k, r, p)
    \/ \E k \in 1..Len(threads) : ThreadFinished(k)
    \/ \E readable \in BOOLEAN : on_generation_finished(readable)
    \/ on_generation_error
    \/ CloseMessageBox

SpecFilterType == Init /\ [][NextFilterType]_vars

\* The window when every generator subprocess terminates and the event
\* loop keeps running, while the user may change the filter type for ever;
\* nothing is assumed of what the user does.
SpecFilterTypeFair ==
    /\ Init /\ [][NextFilterType]_vars
    /\ WF_vars(WorkerRuns)
    /\ WF_vars(FinishedDelivered)
    /\ WF_vars(on_generation_error)

(***************************************************************************)
(* The window under changes of the file name alone: the user retypes the   *)
(* file name any number of times between and during generations.           *)
(***************************************************************************)

\* The user types a file name (no limit on how often).
ChangeFileName(t) ==
    /\ AcceptsInput
    /\ t # gui.file_name
    /\ gui' = [gui EXCEPT !.file_name = t]
    /\ UNCHANGED << filterVars, threads, events, disk, handled, edits, runs >>

NextOutputFile ==
    \/ \E t \in FileNameTexts : ChangeFileName(t)
    \/ generate_filter
    \/ \E k \in 1..Len(threads), r \in SubprocessResults, p \in BOOLEAN :
           FilterThreadRun(k, r, p)
    \/ \E k \in 1..Len(threads) : ThreadFinished(k)
    \/ \E readable \in BOOLEAN : on_generation_finished(readable)
    \/ on_generation_error
    \/ CloseMessageBox

SpecOutputFile == Init /\ [][NextOutputFile]_vars

(***************************************************************************)
(* The runtime contract of the generated filter, stated from the           *)
(* documentation and checked against the model above.                      *)
(***************************************************************************)

\* The coefficients of one section, read off process in cascade order:
\* section i computes x = input - a1*z1 - a2*z2.
Cascade ==
    << [b0 |-> Sec0B0, b1 |-> Sec0B1, b2 |-> Sec0B2,
        a1 |-> Sec0A1, a2 |-> Sec0A2],
       [b0 |-> Sec1B0, b1 |-> Sec1B1, b2 |-> Sec1B2,
        a1 |-> Sec1A1, a2 |-> Sec1A2] >>

\* One direct-form-II biquad step with coefficients c on the registers
\* z1, z2: x = in - a1*z1 - a2*z2, output = b0*x + b1*z1 + b2*z2.
Biquad(c, z1, z2, in) ==
    LET x == FSub(FSub(in, FMul(c.a1, z1)), FMul(c.a2, z2))
    IN  [x |-> x,
         output |-> FAdd(FAdd(FMul(c.b0, x), FMul(c.b1, z1)), FMul(c.b2, z2))]

\* The documented cascade on registers z: section 0 on the input, section 1
\* on section 0's output; z2 <- z1 and z1 <- x in each section.
DocumentedProcess(z, in) ==
    LET s0 == Biquad(Cascade[1], z.z1_0, z.z2_0, in)
        s1 == Biquad(Cascade[2], z.z1_1, z.z2_1, s0.output)
    IN  [z |-> [z1_0 |-> s0.x, z2_0 |-> z.z1_0,
                z1_1 |-> s1.x, z2_1 |-> z.z1_1],
         output |-> s1.output]

ZeroRegisters ==
    [z1_0 |-> FZero(0), z2_0 |-> FZero(0), z1_1 |-> FZero(0),
     z2_1 |-> FZero(0)]

AllRegistersNonzero(z) ==
    /\ ~IsZero(z.z1_0) /\ ~IsZero(z.z2_0)
    /\ ~IsZero(z.z1_1) /\ ~IsZero(z.z2_1)

\* C1: every process call, from any registers and for any sample, leaves
\* the registers and returns the value of the documented cascade: section 0
\* then section 1, each computing x and its output from its own registers
\* as they were before the call, then z2 <- old z1 and z1 <- x.
C1_ProcessIsCascade ==
    last.op = "process" =>
        LET d == DocumentedProcess(last.pre, last.in)
        IN  /\ filters[last.ch] = d.z
            /\ last.out = d.output

\* C1 witness: a process call that found every register nonzero.
C1_Witness ==
    /\ last.op = "process"
    /\ AllRegistersNonzero(last.pre)
    /\ ~IsZero(last.out)

\* C2: reset leaves every register 0.0, and the process call that follows
\* applies the recursion with the coefficients it had before the reset.
C2_ResetZeroesRegisters ==
    last.op = "reset" =>
        /\ filters[last.ch] = ZeroRegisters
        /\ \A u \in Samples :
               process(filters[last.ch], u) = DocumentedProcess(ZeroRegisters, u)

\* C2 witness: a reset that found every register nonzero.
C2_Witness ==
    /\ last.op = "reset"
    /\ AllRegistersNonzero(last.pre)

\* The calls since the last reset (all of them when there was none).
RECURSIVE SinceReset(_)
SinceReset(cs) ==
    IF cs = << >> \/ cs[Len(cs)].op = "reset" THEN << >>
    ELSE Append(SinceReset(SubSeq(cs, 1, Len(cs) - 1)), cs[Len(cs)])

\* The outputs of a newly constructed instance driven alone through the
\* calls cs (their op and in fields), and its registers at the end.
RECURSIVE DrivenAlone(_)
DrivenAlone(cs) ==
    IF cs = << >> THEN [z |-> MyFilterInit, outs |-> << >>]
    ELSE LET before == DrivenAlone(SubSeq(cs, 1, Len(cs) - 1))
             c      == cs[Len(cs)]
         IN  IF c.op = "reset"
             THEN [z |-> reset(before.z),
                   outs |-> Append(before.outs, NoSample)]
             ELSE LET r == process(before.z, c.in)
                  IN  [z |-> r.z, outs |-> Append(before.outs, r.output)]

OutputsOf(cs) == [i \in 1..Len(cs) |-> cs[i].out]

\* C3: on every instance, the outputs since its last reset are those of a
\* newly constructed instance fed the same samples.
C3_ResetThenReplay ==
    \A c \in Channels :
        LET tail == SinceReset(calls[c])
        IN  OutputsOf(tail) = DrivenAlone(tail).outs

\* C3 witness: an instance with history, then a reset, then samples.
C3_Witness ==
    \E c \in Channels :
        /\ Len(calls[c]) = 4
        /\ calls[c][1].op = "process" /\ calls[c][2].op = "process"
        /\ calls[c][3].op = "reset"
        /\ calls[c][4].op = "process" /\ ~IsZero(calls[c][4].out)

\* Every instance holds the registers, and has returned the outputs, it
\* would have if it had been driven alone with its own calls.
C4_AsIfAlone ==
    \A c \in Channels :
        LET alone == DrivenAlone(calls[c])
        IN  /\ filters[c] = alone.z
            /\ OutputsOf(calls[c]) = alone.outs

\* A call on one instance leaves the registers of every other unchanged.
C4_Frame ==
    \A c \in Channels : calls'[c] = calls[c] => filters'[c] = filters[c]

\* C4: multi-channel independence: a call on one instance never changes
\* another's registers, and under every interleaving each instance behaves
\* as if driven alone.
C4_ChannelsIndependent == [][C4_Frame]_vars /\ []C4_AsIfAlone

\* C4 witness: calls on the two instances interleaved.
C4_Witness ==
    /\ Len(calls[1]) = 2 /\ Len(calls[2]) = 2
    /\ last.ch = 2 /\ last.op = "process"
    /\ ~IsZero(last.pre.z1_0)
    /\ calls[1][2].op = "process"
    /\ calls[1] # calls[2]

\* Whether two call histories agree, in operation and sample, up to call k.
SameCallsUpTo(cs, ds, k) ==
    /\ k <= Len(cs) /\ k <= Len(ds)
    /\ \A j \in 1..k : cs[j].op = ds[j].op /\ cs[j].in = ds[j].in

\* C5: two instances fed the same sequence return the same outputs step by
\* step, and hold the same registers when they have been fed as much.
C5_Deterministic ==
    \A a, b \in Channels :
        /\ \A k \in 1..Len(calls[a]) :
               SameCallsUpTo(calls[a], calls[b], k)
                   => calls[a][k].out = calls[b][k].out
        /\ (Len(calls[a]) = Len(calls[b])
            /\ SameCallsUpTo(calls[a], calls[b], Len(calls[a])))
               => filters[a] = filters[b]

\* C5 witness: both instances fed the same two samples.
C5_Witness ==
    /\ Len(calls[1]) = 2 /\ Len(calls[2]) = 2
    /\ SameCallsUpTo(calls[1], calls[2], 2)
    /\ calls[1][1].op = "process" /\ calls[1][2].op = "process"
    /\ AllRegistersNonzero(filters[2])

\* The reference cascade of the documentation for lowpass, rate 500.0,
\* order 4, freq 50.0: section i has b0, b1, b2 and the recursion
\* x = input + p1*z1 - p2*z2.
Reference ==
    << [b0 |-> FromLit(<<0>>, <<0, 0, 4, 8, 2, 4, 3, 4>>),
        b1 |-> FromLit(<<0>>, <<0, 0, 9, 6, 4, 8, 6, 9>>),
        b2 |-> FromLit(<<0>>, <<0, 0, 4, 8, 2, 4, 3, 4>>),
        p1 |-> FromLit(<<1>>, <<0, 4, 8, 5, 9, 9, 5, 8>>),
        p2 |-> FromLit(<<0>>, <<2, 9, 6, 1, 4, 0, 3, 6>>)],
       [b0 |-> FromLit(<<1>>, <<0>>),
        b1 |-> FromLit(<<2>>, <<0>>),
        b2 |-> FromLit(<<1>>, <<0>>),
        p1 |-> FromLit(<<1>>, <<3, 2, 0, 9, 1, 3, 4, 3>>),
        p2 |-> FromLit(<<0>>, <<6, 3, 2, 7, 3, 8, 7, 9>>)] >>

\* The reference recursion of section i.
ReferenceX(i, in, z1, z2) ==
    FSub(FAdd(in, FMul(Reference[i].p1, z1)), FMul(Reference[i].p2, z2))

\* The tolerance 1e-6 and the comparison within it.
Tol == FromLit(<<0>>, <<0, 0, 0, 0, 0, 1>>)

Near(a, b) == FLe(FAbs(FSub(a, b)), Tol)

One == FromLit(<<1>>, <<0>>)

\* C6: the artifact, generated for lowpass, rate 500.0, order 4, freq
\* 50.0, has the reference b0, b1, b2 in both sections within 1e-6, and
\* in every process call each section's x is within 1e-6 of the reference
\* recursion x = input + p1*z1 - p2*z2 on the section's input and
\* registers.
C6_ReferenceCascade ==
    /\ ArtifactHeader.family = "Low-Pass"
    /\ ArtifactHeader.rate = FromLit(<<5, 0, 0>>, <<0>>)
    /\ ArtifactHeader.freq = FromLit(<<5, 0>>, <<0>>)
    /\ ArtifactHeader.order = 4
    /\ \A i \in 1..2 :
           /\ Near(Cascade[i].b0, Reference[i].b0)
           /\ Near(Cascade[i].b1, Reference[i].b1)
           /\ Near(Cascade[i].b2, Reference[i].b2)
    /\ last.op = "process" =>
           LET z  == last.pre
               s0 == Biquad(Cascade[1], z.z1_0, z.z2_0, last.in)
           IN  /\ Near(filters[last.ch].z1_0,
                       ReferenceX(1, last.in, z.z1_0, z.z2_0))
               /\ Near(filters[last.ch].z1_1,
                       ReferenceX(2, s0.output, z.z1_1, z.z2_1))

\* C6 witness: a process call with a negative sample on registers that are
\* all nonzero, so every term of both recursions takes part.
C6_Witness ==
    /\ last.op = "process"
    /\ last.in.s = 1
    /\ AllRegistersNonzero(last.pre)
    /\ AllRegistersNonzero(filters[last.ch])

\* C7: every section a process call runs has its pole pair strictly inside
\* the unit circle: its feedback coefficients satisfy a2 < 1 and
\* |a1| < 1 + a2.
C7_PolesInsideUnitCircle ==
    last.op = "process" =>
        \A i \in 1..2 :
            /\ FLt(Cascade[i].a2, One)
            /\ FLt(FAbs(Cascade[i].a1), FAdd(One, Cascade[i].a2))

\* C7 witness: both sections have fed their poles back: a third call in a
\* row on one instance, whose four registers all carry feedback.
C7_Witness ==
    \E c \in Channels :
        /\ Len(calls[c]) = 3
        /\ \A k \in 1..3 : calls[c][k].op = "process"
        /\ last.ch = c
        /\ AllRegistersNonzero(last.pre)

\* A literal with 8 decimal places as an integer, in units of 10^-8.
Scaled(l) ==
    (IF l.neg THEN -1 ELSE 1) * DigitsToInt(l.ip \o l.fp, Len(l.ip) + 8)

\* (b0 + b1 + b2) and (1 + a1 + a2) of each section, in units of 10^-8.
NumSum ==
    << Scaled(Sec0B0Lit) + Scaled(Sec0B1Lit) + Scaled(Sec0B2Lit),
       Scaled(Sec1B0Lit) + Scaled(Sec1B1Lit) + Scaled(Sec1B2Lit) >>

DenSum ==
    << 10^8 + Scaled(Sec0A1Lit) + Scaled(Sec0A2Lit),
       10^8 + Scaled(Sec1A1Lit) + Scaled(Sec1A2Lit) >>

\* The DC gain N/D of the cascade, N and D the products of the sections'
\* sums, is within 1/1000 of 1: 1000 * |N - D| <= D, in exact arithmetic.
DCGainIsUnity ==
    /\ \A i \in 1..2 : NumSum[i] >= 0 /\ DenSum[i] > 0
    /\ LET N == WMul(WFromInt(NumSum[1]), WFromInt(NumSum[2]))
           D == WMul(WFromInt(DenSum[1]), WFromInt(DenSum[2]))
           diff == IF WCmp(N, D) >= 0 THEN WSub(N, D) ELSE WSub(D, N)
       IN  WCmp(WMul(diff, WFromInt(1000)), D) <= 0

\* The tolerance 1e-3.
DCTol == FromLit(<<0>>, <<0, 0, 1>>)

\* C8: fed 1.0 on every call from the reset state, the output of process
\* is within 1e-3 of 1.0 from the DCSettle-th call on, for ever; and the
\* DC gain of the cascade, the product over the sections of
\* (b0+b1+b2)/(1+a1+a2), is within 1e-3 of 1.0.
C8_UnitStepSettles ==
    (last.op = "process" /\ unitCalls = DCSettle) =>
        /\ FLe(FAbs(FSub(last.out, One)), DCTol)
        /\ DCGainIsUnity

\* C8 witness: the run has settled for good: a call past DCSettle that
\* left the registers as it found them, after an overshoot on the way.
C8_Witness ==
    /\ last.op = "process" /\ unitCalls = DCSettle
    /\ filters[1] = last.pre
    /\ AllRegistersNonzero(filters[1])

\* C8 witness of the transient: a call before DCSettle whose output is
\* further than 1e-3 above 1.0, so that settling is not immediate.
C8_Overshoot ==
    /\ last.op = "process" /\ unitCalls < DCSettle
    /\ FLt(DCTol, FSub(last.out, One))

\* The significant digits a literal is written with: its digits from the
\* first nonzero one.
RECURSIVE LeadingZeros(_, _)
LeadingZeros(ds, i) ==
    IF i > Len(ds) \/ ds[i] # 0 THEN 0 ELSE 1 + LeadingZeros(ds, i + 1)

SigDigits(l) == Len(l.ip \o l.fp) - LeadingZeros(l.ip \o l.fp, 1)

\* C9, as documented: every coefficient literal a process call evaluates
\* is written with at least 8 significant digits.  The literals have 8
\* decimal places, and 0.00482434 and 0.00964869 have 6 significant digits.
C9_EightSignificantDigits ==
    last.op = "process" =>
        \A i \in 1..Len(CoefficientLiterals) :
            SigDigits(CoefficientLiterals[i]) >= 8

(***************************************************************************)
(* The contract of the designer window.                                    *)
(***************************************************************************)

SuccessMessage == T("Filter generated successfully!")

ExitedZero(result) == result.kind = "completed" /\ result.returncode = 0

\* The diagnostic of a failed run: the captured stderr of a generator that
\* exited with a non-zero code, the text of the exception otherwise.
Diagnostic(result) ==
    IF result.kind = "completed" THEN result.stderr ELSE result.exception

\* C10: a worker that has run has emitted exactly one signal: finished,
\* with the success message, if and only if the generator exited with
\* code 0; error, carrying the diagnostic (stderr or the exception text),
\* for a non-zero exit code or an exception.  The slot on_generation_finished
\* runs, and the status box shows the success line, only for a generator
\* that exited with code 0.
C10_SuccessOnlyOnExitZero ==
    /\ \A k \in 1..Len(threads) :
           LET t == threads[k]
           IN  IF t.pc = "started" THEN t.emitted = << >>
               ELSE /\ Len(t.emitted) = 1
                    /\ IF ExitedZero(t.result)
                       THEN t.emitted[1] = [signal |-> "finished",
                                            arg |-> SuccessMessage]
                       ELSE t.emitted[1] =
                                [signal |-> "error",
                                 arg |-> T("Error: ")
                                          \o Diagnostic(t.result)]
    /\ \A j \in 1..Len(events) :
           (events[j].signal = "finished") <=> ExitedZero(events[j].result)
    /\ handled.slot = "on_generation_finished" =>
           ExitedZero(handled.result) /\ handled.arg = SuccessMessage
    /\ handled.slot = "on_generation_error" =>
           /\ ~ExitedZero(handled.result)
           /\ handled.arg = T("Error: ") \o Diagnostic(handled.result)
    /\ (\E n \in 1..Len(gui.status_text) :
            gui.status_text[n] = CheckMark \o SuccessMessage) =>
           handled.slot = "on_generation_finished"

\* C10 witness: the second worker's success has been reported, for a
\* generator that exited with code 0 and warnings on stderr, after a first
\* run that left no file; the first line after the reset of the status box
\* is the success line.
C10_Witness ==
    /\ runs = 2
    /\ handled.slot = "on_generation_finished" /\ handled.thread = 2
    /\ handled.result.stderr # << >>
    /\ Len(gui.status_text) >= 2
    /\ gui.status_text[2] = CheckMark \o SuccessMessage
    /\ DOMAIN disk # {} /\ \A p \in DOMAIN disk : disk[p] = 2

\* C10 witness of the failures: an error reported for a run that raised.
C10_ErrorReported ==
    /\ handled.slot = "on_generation_error"
    /\ handled.result.kind = "raised"
    /\ gui.message_box = << handled.arg >>
    /\ gui.generate_button.enabled

\* The extension conventional for each target language.
ConventionalExtension ==
    [l \in {"python", "javascript", "typescript", "c++", "java"} |->
        CASE l = "python" -> T(".py")
          [] l = "javascript" -> T(".js")
          [] l = "typescript" -> T(".ts")
          [] l = "c++" -> T(".cpp")
          [] l = "java" -> T(".java")]

\* The file names a command can carry: the stripped texts of the line edit.
StrippedFileNames == { Strip(t) : t \in FileNameTexts \cup {GuiInit.file_name} }

\* A command names its language, a supported one, by the token itself, and
\* its output file, if any, by that language's own extension.
LanguageRespected(cmd) ==
    /\ HasArg(cmd, "--language")
    /\ Len(ArgOf(cmd, "--language")) = 1
    /\ ArgOf(cmd, "--language")[1] \in DOMAIN ConventionalExtension
    /\ HasArg(cmd, "--out") =>
           \E name \in StrippedFileNames \ {<< >>} :
               ArgOf(cmd, "--out")
                   = name \o ConventionalExtension[ArgOf(cmd, "--language")[1]]

BandTypes == {"bandpass", "bandstop"}

\* A command carries --width, with the bandwidth, exactly when its --type
\* is bandpass or bandstop.
WidthIffBand(cmd) ==
    /\ HasArg(cmd, "--type")
    /\ HasArg(cmd, "--width") <=> ArgOf(cmd, "--type") \in {T(b) : b \in BandTypes}
    /\ HasArg(cmd, "--width") => ArgOf(cmd, "--width") = BandwidthText

\* C12: after any sequence of filter-type changes, the command the window
\* would build, and the command of every worker started, includes --width
\* if and only if the filter type is bandpass or bandstop; the bandwidth
\* field is shown in exactly those states.
C12_WidthIffBandType ==
    /\ WidthIffBand(build_command(gui))
    /\ ArgOf(build_command(gui), "--type") = T(gui.filter_type)
    /\ gui.bandwidth_shown <=> gui.filter_type \in BandTypes
    /\ \A k \in 1..Len(threads) : WidthIffBand(threads[k].command)

\* C12 witness: in a second generation a worker runs a bandstop request
\* with its width, and the type has since been changed to highpass, for
\* which the window would send none.
C12_Witness ==
    /\ runs = 2
    /\ threads # << >>
    /\ ArgOf(threads[Len(threads)].command, "--type") = T("bandstop")
    /\ ArgOf(threads[Len(threads)].command, "--width") = BandwidthText
    /\ gui.filter_type = "highpass"
    /\ ~gui.bandwidth_shown
    /\ ~HasArg(build_command(gui), "--width")

\* A worker is in flight from the start of its thread until the slot of the
\* signal it emits has run.
InFlight(t) ==
    \/ t.pc = "started"
    \/ \E j \in 1..Len(events) : events[j].thread = t.id

WorkersInFlight == { k \in 1..Len(threads) : InFlight(threads[k]) }

\* While a worker is in flight it is the only one, it is the one
\* self.worker_thread names, and the Generate button is disabled.
C13_OneInFlight ==
    /\ Cardinality(WorkersInFlight) <= 1
    /\ Len(events) <= 1
    /\ WorkersInFlight # {} =>
           /\ WorkersInFlight = {Len(threads)}
           /\ ~gui.generate_button.enabled
           /\ gui.generate_button.text = "Generating..."

\* generate_filter starts a worker only when none is in flight and leaves
\* the button disabled; the button is enabled again only by the step that
\* runs the slot of the signal of that worker.
C13_Step ==
    /\ runs' # runs =>
           /\ WorkersInFlight = {}
           /\ gui.generate_button.enabled
           /\ ~gui'.generate_button.enabled
           /\ threads'[Len(threads')].pc = "started"
    /\ (~gui.generate_button.enabled /\ gui'.generate_button.enabled) =>
           /\ events # << >>
           /\ events' = Tail(events)
           /\ handled'.slot \in {"on_generation_finished",
                                 "on_generation_error"}
           /\ handled'.thread = threads[Len(threads)].id
           /\ handled'.thread = Head(events).thread

\* C13: at most one FilterThread worker is in flight at any time:
\* generate_filter disables the Generate button before it starts the
\* worker, and the button stays disabled until on_generation_finished or
\* on_generation_error has run for that worker.
C13_AtMostOneWorker == []C13_OneInFlight /\ [][C13_Step]_vars

\* C13 witness: the second worker has emitted its signal, which waits in
\* the queue; the button is still disabled although the worker's run is
\* over.
C13_Witness ==
    /\ runs = 2
    /\ Len(threads) = 1 /\ threads[1].id = 2
    /\ threads[1].pc \in {"returned", "finished"}
    /\ Len(events) = 1 /\ events[1].thread = 2
    /\ ~gui.generate_button.enabled
    /\ handled.thread = 1

\* The button as the two slots leave it.
ButtonReady ==
    /\ gui.generate_button.enabled
    /\ gui.generate_button.text = "Generate Filter"

\* Call i of generate_filter has been made and its worker's slot has not
\* run yet.
Awaited(i) == runs = i /\ ~gui.generate_button.enabled

\* A slot has run for the worker of call i and has left the button ready.
Answered(i) ==
    /\ handled.thread = i
    /\ handled.slot \in {"on_generation_finished", "on_generation_error"}
    /\ ButtonReady

\* A slot runs for a worker no slot has run for before, and it is the slot
\* of the signal that worker emitted.
C14_SlotOnce ==
    Len(events') < Len(events) =>
        /\ Head(events).thread > handled.thread
        /\ handled'.thread = Head(events).thread
        /\ handled'.slot = IF Head(events).signal = "finished"
                           THEN "on_generation_finished"
                           ELSE "on_generation_error"
        /\ ButtonReady'

\* C14: when every generator subprocess terminates, every call of
\* generate_filter is followed by exactly one of on_generation_finished and
\* on_generation_error for its worker, which leaves the button enabled with
\* the text "Generate Filter"; a disabled button always becomes enabled.
C14_EveryRunAnswered ==
    /\ \A i \in 1..MaxRuns : Awaited(i) ~> Answered(i)
    /\ [][C14_SlotOnce]_vars
    /\ (~gui.generate_button.enabled) ~> ButtonReady

\* C14 witness: the second call has been answered by the error slot.
C14_Witness ==
    /\ runs = 2 /\ Answered(2)
    /\ handled.slot = "on_generation_error"
    /\ handled.result.kind = "raised"

\* The lines of the status box that begin with the token first.
StatusLines(first) ==
    { gui.status_text[j] : j \in { i \in 1..Len(gui.status_text) :
                                       /\ gui.status_text[i] # << >>
                                       /\ gui.status_text[i][1] = first } }

\* The live worker whose finished signal the slot run last has handled, its
\* status lines still showing.
ReportedWorkers ==
    { k \in 1..Len(threads) :
          /\ handled.slot = "on_generation_finished"
          /\ threads[k].id = handled.thread
          /\ threads[k].pc # "started"
          /\ ButtonReady }

\* C15: after a successful generation, the file on_generation_finished
\* reports and loads into the preview is the one named after --out in the
\* command the finished worker ran, as that worker wrote it, and the plot it
\* reports is the one named after --plot, whatever the user edited while the
\* worker ran.
C15_PreviewIsWorkerOutput ==
    \A k \in ReportedWorkers :
        /\ \A line \in StatusLines("Generated file: ") :
               /\ HasArg(threads[k].command, "--out")
               /\ line = T("Generated file: ")
                             \o ArgOf(threads[k].command, "--out")
               /\ gui.code_preview =
                      [path |-> ArgOf(threads[k].command, "--out"),
                       run |-> threads[k].id]
        /\ \A line \in StatusLines("Generated plot: ") :
               /\ HasArg(threads[k].command, "--plot")
               /\ line = T("Generated plot: ")
                             \o ArgOf(threads[k].command, "--plot")

\* The preview holds what an earlier worker wrote to another path than the
\* one the finished worker was given.
C15_StalePreview ==
    \E k \in ReportedWorkers :
        /\ StatusLines("Generated file: ") # {}
        /\ gui.code_preview.path # ArgOf(threads[k].command, "--out")
        /\ gui.code_preview.run < threads[k].id

========================================================================
